---- MODULE Spec2Model ----
(***************************************************************************)
(* Traffic-control and resilience layer of the URL shortener API:          *)
(*   - utils/circuit_breaker.py : CircuitBreaker, the fallback strategies  *)
(*     and GracefulDegradation;                                            *)
(*   - middleware/rate_limiting.py : InMemoryRateLimiter (sliding window)  *)
(*     and RateLimitMiddleware.                                            *)
(*                                                                         *)
(* Time.  time.time() is a float of seconds.  The clock `now` counts ticks *)
(* of 1/TicksPerSecond second, so that int() of a difference of two clock  *)
(* readings really truncates.  Durations the code gives in seconds are     *)
(* converted with Ticks().                                                 *)
(*                                                                         *)
(* Scheduling.  All of this code runs on one asyncio event loop: a         *)
(* coroutine runs without interruption between two awaits, so an action    *)
(* of the model is the code between two awaits of one coroutine.           *)
(***************************************************************************)
EXTENDS Integers, Sequences, FiniteSets, TLC

\* ------------------------------------------------------------------ bounds
\* Clock resolution: ticks per second.
TicksPerSecond == 2
\* The clock stops advancing at StartTime + MaxTime ticks.
MaxTime == 4
\* Call attempts on the breaker that get past the spin loop.
MaxCalls == 5
\* Thresholds of the breaker configurations explored: 1..MaxThreshold.
MaxThreshold == 2
\* Calls made through the references to registered breakers.
MaxUses == 3
\* The invocations of the operation that may raise while recovery is studied:
\* the first MaxFailing; every later one returns.
MaxFailing == 2
\* The callers of a breaker under contention: 1..MaxContenders.
MaxContenders == 3
\* is_allowed calls made on a bare limiter.
MaxChecks == 4
\* Limits (1..MaxLimit) and windows (1..MaxWindow seconds) a bare limiter is called with.
MaxLimit == 2
MaxWindow == 2
\* dispatch calls made on the middleware.
MaxRequests == 3
\* The clock of the middleware advances in strides of Stride seconds (and by
\* single ticks between the two checks of one dispatch, MaxDrift ticks in all).
Stride == 20
MaxDrift == 1
\* The clock of a limiter under a burst runs for BurstTime seconds.
BurstTime == 5

Ticks(seconds) == seconds * TicksPerSecond

\* A dict read with a default of an empty deque, and a dict write.
Get(f, k) == IF k \in DOMAIN f THEN f[k] ELSE << >>
Put(f, k, v) == [x \in DOMAIN f \cup {k} |-> IF x = k THEN v ELSE f[x]]

\* The concurrent callers (coroutines) of one breaker.
Callers == {1, 2}

VARIABLES
    now,          \* the clock, in ticks (what time.time() returns)
    \* --- CircuitBreaker
    config,       \* self.config : CircuitBreakerConfig
    stats,        \* self.stats  : CircuitBreakerStats
    _lock,        \* self._lock
    pc,           \* per caller: "idle", "spin" (asleep in the spin loop), "op" (awaiting func)
    mode,         \* per caller: "call" (CircuitBreaker.call) or "execute" (GracefulDegradation.execute)
    fallback,     \* the FallbackStrategy of the GracefulDegradation wrapper
    outcome,      \* per caller: how its last call ended
    handed,       \* what the last CircuitBreaker.call that ended handed to its caller:
                  \* the result it returned or the exception it raised
    \* --- history variables of the breaker (not program state)
    attempts,     \* call attempts that got past the spin loop
    invoked,      \* invocations of the wrapped operation
    caller,       \* the caller of the last attempt
    consecFail,   \* invocations that raised since the last one that returned (or the reset)
    longestRun,   \* the longest run of invocations that raised with none that returned
                  \* between them, since construction
    hoSucc        \* invocations that returned while HALF_OPEN since the last one that raised

VARIABLES
    \* --- InMemoryRateLimiter
    requests,     \* self.requests: key -> deque of timestamps (a key is in the
                  \* domain when the defaultdict holds it)
    last_cleanup, \* self.last_cleanup
    policy,       \* the (limit, window) each key of a bare limiter is called with
    verdict,      \* the last is_allowed call: its arguments, what it found, what it returned
    \* --- history variables of the limiter (not program state)
    admitted,     \* key -> the admission times still inside the key's window
    checks        \* is_allowed calls made

VARIABLES
    \* --- RateLimitMiddleware
    inflight,     \* per request slot: the request awaiting call_next, or NoRequest
    response,     \* the last response dispatch returned, and the slot it returned in
    \* --- history variables of the middleware (not program state)
    served,       \* dispatch calls made
    dispatched,   \* the slot and the request of the last dispatch call
    passed        \* <<client id, pattern>> -> the times, still inside the pattern's window,
                  \* at which a request of the client to a path under the pattern
                  \* passed both checks

VARIABLES
    \* --- the registry of breakers (module level of circuit_breaker.py)
    _circuit_breakers, \* the dict _circuit_breakers: name -> the CircuitBreaker object
    heap,         \* the CircuitBreaker objects ever constructed for the registry, in
                  \* order of construction: an object is its index
    refs,         \* per holder: the reference it holds, got from get_circuit_breaker
                  \* or as self.circuit_breaker of a GracefulDegradation
    \* --- history variable of the registry (not program state)
    used          \* the calls made through references, and the holder of the last one

VARIABLES
    \* --- _get_client_id on its own
    incoming,     \* the request given to _get_client_id
    identity      \* what _get_client_id returned for it, or NoIdentity

VARIABLES
    \* --- _get_endpoint_limit on its own
    table,        \* self.rate_limits, in declaration order
    looked        \* the path _get_endpoint_limit was called with and what it
                  \* returned, or NoLookup

cbVars == <<config, stats, _lock, pc, mode, fallback, outcome, handed,
            attempts, invoked, caller, consecFail, longestRun, hoSucc>>
rlVars == <<requests, last_cleanup, policy, verdict, admitted, checks>>
mwVars == <<inflight, response, served, dispatched, passed>>
rgVars == <<_circuit_breakers, heap, refs, used>>
idVars == <<incoming, identity>>
lkVars == <<table, looked>>
vars == <<now, cbVars, rlVars, mwVars, rgVars, idVars, lkVars>>

\* ------------------------------------------------------- CircuitBreaker
\* Optional[float] = None; time.time() is never 0, so 0 is free to stand for None
\* (both are falsy in `if self.stats.last_failure_time and ...`).
None == 0

\* The clock starts late enough that every reading is truthy.
StartTime == 1

CircuitBreakerStats ==
    [state |-> "CLOSED", failure_count |-> 0, success_count |-> 0,
     last_failure_time |-> None, last_success_time |-> None,
     total_requests |-> 0, total_failures |-> 0]

\* The configurations explored (timeout is never read by the code).
CircuitBreakerConfig ==
    [failure_threshold : 1..MaxThreshold,
     recovery_timeout  : {1},
     success_threshold : 1..MaxThreshold]

\* _update_state that closes without resetting failure_count.
_update_state_keeps_failures(cfg, s, t) ==
    IF s.state = "OPEN"
    THEN IF s.last_failure_time # None
            /\ t - s.last_failure_time >= Ticks(cfg.recovery_timeout)
         THEN [s EXCEPT !.state = "HALF_OPEN", !.success_count = 0]
         ELSE s
    ELSE IF s.state = "HALF_OPEN"
         THEN IF s.success_count >= cfg.success_threshold
              THEN [s EXCEPT !.state = "CLOSED"]
              ELSE s
         ELSE s

\* _update_state with the recovery test strict: at exactly recovery_timeout the
\* breaker stays OPEN.
_update_state_strict(cfg, s, t) ==
    IF s.state = "OPEN"
    THEN IF s.last_failure_time # None
            /\ t - s.last_failure_time > Ticks(cfg.recovery_timeout)
         THEN [s EXCEPT !.state = "HALF_OPEN", !.success_count = 0]
         ELSE s
    ELSE IF s.state = "HALF_OPEN"
         THEN IF s.success_count >= cfg.success_threshold
              THEN [s EXCEPT !.state = "CLOSED", !.failure_count = 0]
              ELSE s
         ELSE s

\* _update_state that restarts the recovery timeout at every look at an OPEN breaker.
_update_state_restarts_timeout(cfg, s, t) ==
    IF s.state = "OPEN"
    THEN IF s.last_failure_time # None
            /\ t - s.last_failure_time >= Ticks(cfg.recovery_timeout)
         THEN [s EXCEPT !.state = "HALF_OPEN", !.success_count = 0]
         ELSE [s EXCEPT !.last_failure_time = t]
    ELSE IF s.state = "HALF_OPEN"
         THEN IF s.success_count >= cfg.success_threshold
              THEN [s EXCEPT !.state = "CLOSED", !.failure_count = 0]
              ELSE s
         ELSE s

\* CircuitBreaker._update_state, on stats s at clock reading t.
_update_state(cfg, s, t) ==
    IF s.state = "OPEN"
    THEN IF s.last_failure_time # None
            /\ t - s.last_failure_time >= Ticks(cfg.recovery_timeout)
         THEN [s EXCEPT !.state = "HALF_OPEN", !.success_count = 0]
         ELSE s
    ELSE IF s.state = "HALF_OPEN"
         THEN IF s.success_count >= cfg.success_threshold
              THEN [s EXCEPT !.state = "CLOSED", !.failure_count = 0]
              ELSE s
         ELSE s

\* _record_success that does not count the successes of the probes.
_record_success_forgets_probes(s, t) ==
    LET s1 == [s EXCEPT !.last_success_time = t]
    IN  IF s1.state = "CLOSED"
        THEN [s1 EXCEPT !.failure_count = 0]
        ELSE s1

\* _record_success that leaves failure_count alone while CLOSED.
_record_success_keeps_failures(s, t) ==
    LET s1 == [s EXCEPT !.last_success_time = t]
    IN  IF s1.state = "HALF_OPEN"
        THEN [s1 EXCEPT !.success_count = @ + 1]
        ELSE s1

\* CircuitBreaker._record_success.
_record_success(s, t) ==
    LET s1 == [s EXCEPT !.last_success_time = t]
    IN  IF s1.state = "HALF_OPEN"
        THEN [s1 EXCEPT !.success_count = @ + 1]
        ELSE IF s1.state = "CLOSED"
             THEN [s1 EXCEPT !.failure_count = 0]
             ELSE s1

\* _record_failure that opens the circuit from CLOSED only.
_record_failure_closed_only(cfg, s, t) ==
    LET s1 == [s EXCEPT !.last_failure_time = t,
                        !.failure_count = @ + 1,
                        !.total_failures = @ + 1]
    IN  IF s1.state = "CLOSED"
           /\ s1.failure_count >= cfg.failure_threshold
        THEN [s1 EXCEPT !.state = "OPEN"]
        ELSE s1

\* _record_failure that opens one failure late.
_record_failure_late(cfg, s, t) ==
    LET s1 == [s EXCEPT !.last_failure_time = t,
                        !.failure_count = @ + 1,
                        !.total_failures = @ + 1]
    IN  IF s1.state \in {"CLOSED", "HALF_OPEN"}
           /\ s1.failure_count > cfg.failure_threshold
        THEN [s1 EXCEPT !.state = "OPEN"]
        ELSE s1

\* CircuitBreaker._record_failure.
_record_failure(cfg, s, t) ==
    LET s1 == [s EXCEPT !.last_failure_time = t,
                        !.failure_count = @ + 1,
                        !.total_failures = @ + 1]
    IN  IF s1.state \in {"CLOSED", "HALF_OPEN"}
           /\ s1.failure_count >= cfg.failure_threshold
        THEN [s1 EXCEPT !.state = "OPEN"]
        ELSE s1

\* The fallback strategies: the base class raises, the two subclasses return
\* their default_value.
FallbackStrategies == {"FallbackStrategy", "CachedFallback", "DefaultValueFallback"}

FallbackExecute(kind) ==
    IF kind = "FallbackStrategy" THEN "NotImplementedError" ELSE "default_value"

\* An except clause that catches CircuitBreakerError only.
GracefulDegradation_except_breaker_only(raised) ==
    IF raised = "CircuitBreakerError" THEN FallbackExecute(fallback) ELSE raised

\* What the caller of GracefulDegradation.execute gets when circuit_breaker.call
\* ended as `raised` ("CircuitBreakerError" or "Exception"): both are caught.
GracefulDegradation_except(raised) == FallbackExecute(fallback)

\* What an operation produces and what CircuitBreaker.call hands to its caller:
\* a result or an exception, told apart by the invocation that produced it (the
\* k-th invocation of the operation returns result k or raises exception k).
NoOutcome == [kind |-> "none", value |-> 0]
Result(k) == [kind |-> "result", value |-> k]
OpException(k) == [kind |-> "Exception", value |-> k]
\* `raise CircuitBreakerError(f"Circuit breaker {self.name} is open")`
CircuitBreakerError == [kind |-> "CircuitBreakerError", value |-> 0]

\* A call that turns the exception of its operation into a CircuitBreakerError.
call_reraise_wrapped(e) == CircuitBreakerError

\* `return result`, and the bare `raise` of the except clause of call: the
\* result, and the exception caught, as they are.
call_return(result) == result
call_reraise(e) == e

\* What a caller in mode m gets when CircuitBreaker.call raises `raised`.
Raised(m, raised) ==
    IF m = "execute" THEN GracefulDegradation_except(raised) ELSE raised

\* CircuitBreaker.call from `self._lock = True` to the await of the operation, or
\* to the raise of CircuitBreakerError (whose finally clears the flag at once).
call_locked(c, m) ==
    LET s1 == _update_state(config, stats, now)
    IN  /\ attempts < MaxCalls
        /\ attempts' = attempts + 1
        /\ caller' = c
        /\ mode' = [mode EXCEPT ![c] = m]
        /\ IF s1.state = "OPEN"
           THEN /\ stats' = s1
                /\ _lock' = FALSE
                /\ pc' = [pc EXCEPT ![c] = "idle"]
                /\ outcome' = [outcome EXCEPT ![c] = Raised(m, "CircuitBreakerError")]
                /\ handed' = CircuitBreakerError
                /\ invoked' = invoked
           ELSE /\ stats' = [s1 EXCEPT !.total_requests = @ + 1]
                /\ _lock' = TRUE
                /\ pc' = [pc EXCEPT ![c] = "op"]
                /\ outcome' = [outcome EXCEPT ![c] = "pending"]
                /\ handed' = handed
                /\ invoked' = invoked + 1
        /\ UNCHANGED <<now, config, fallback, consecFail, longestRun, hoSucc, rlVars, mwVars, rgVars, idVars, lkVars>>

\* A caller enters CircuitBreaker.call (directly, or through
\* GracefulDegradation.execute): with the flag set it goes to sleep in the spin
\* loop, otherwise it takes the flag in the same step.
call(c, m) ==
    /\ pc[c] = "idle"
    /\ IF _lock
       THEN /\ pc' = [pc EXCEPT ![c] = "spin"]
            /\ mode' = [mode EXCEPT ![c] = m]
            /\ outcome' = [outcome EXCEPT ![c] = "pending"]
            /\ UNCHANGED <<now, config, stats, _lock, fallback, handed,
                           attempts, invoked, caller, consecFail, longestRun, hoSucc, rlVars, mwVars, rgVars, idVars, lkVars>>
       ELSE call_locked(c, m)

\* A sleeper that leaves the spin loop whatever the flag.
spin_wake_ignores_flag(c) ==
    /\ pc[c] = "spin"
    /\ call_locked(c, mode[c])

\* A sleeper of the spin loop wakes up and finds the flag cleared.  (Waking up
\* with the flag still set changes nothing: it sleeps again.)
spin_wake(c) ==
    /\ pc[c] = "spin"
    /\ ~_lock
    /\ call_locked(c, mode[c])

\* The awaited operation returns: _record_success, finally, return result.
op_returns(c) ==
    /\ pc[c] = "op"
    /\ stats' = _record_success(stats, now)
    /\ _lock' = FALSE
    /\ pc' = [pc EXCEPT ![c] = "idle"]
    /\ outcome' = [outcome EXCEPT ![c] = "result"]
    /\ handed' = call_return(Result(invoked))
    /\ consecFail' = 0
    /\ hoSucc' = IF stats.state = "HALF_OPEN" THEN hoSucc + 1 ELSE hoSucc
    /\ UNCHANGED <<now, config, mode, fallback, attempts, invoked, caller, longestRun,
                   rlVars, mwVars, rgVars, idVars, lkVars>>

\* The awaited operation raises: _record_failure, finally, raise.
op_raises(c) ==
    /\ pc[c] = "op"
    /\ stats' = _record_failure(config, stats, now)
    /\ _lock' = FALSE
    /\ pc' = [pc EXCEPT ![c] = "idle"]
    /\ outcome' = [outcome EXCEPT ![c] = Raised(mode[c], "Exception")]
    /\ handed' = call_reraise(OpException(invoked))
    /\ consecFail' = consecFail + 1
    /\ longestRun' = IF consecFail + 1 > longestRun THEN consecFail + 1 ELSE longestRun
    /\ hoSucc' = 0
    /\ UNCHANGED <<now, config, mode, fallback, attempts, invoked, caller,
                   rlVars, mwVars, rgVars, idVars, lkVars>>

\* A reset that keeps failure_count.
reset_keeps_failure_count ==
    /\ stats # CircuitBreakerStats
    /\ stats' = [CircuitBreakerStats EXCEPT !.failure_count = stats.failure_count]
    /\ consecFail' = 0
    /\ hoSucc' = 0
    /\ UNCHANGED <<now, config, _lock, pc, mode, fallback, outcome, handed,
                   attempts, invoked, caller, longestRun, rlVars, mwVars, rgVars, idVars, lkVars>>

\* CircuitBreaker.reset: a synchronous call, possible between any two steps.
reset ==
    /\ stats # CircuitBreakerStats
    /\ stats' = CircuitBreakerStats
    /\ consecFail' = 0
    /\ hoSucc' = 0
    /\ UNCHANGED <<now, config, _lock, pc, mode, fallback, outcome, handed,
                   attempts, invoked, caller, longestRun, rlVars, mwVars, rgVars, idVars, lkVars>>

\* Time passes.
Tick ==
    /\ now < StartTime + MaxTime
    /\ now' = now + 1
    /\ UNCHANGED <<cbVars, rlVars, mwVars, rgVars, idVars, lkVars>>

InitBreaker ==
    /\ config \in CircuitBreakerConfig
    /\ stats = CircuitBreakerStats
    /\ _lock = FALSE
    /\ pc = [c \in Callers |-> "idle"]
    /\ mode = [c \in Callers |-> "call"]
    /\ fallback \in FallbackStrategies
    /\ outcome = [c \in Callers |-> "none"]
    /\ handed = NoOutcome
    /\ attempts = 0
    /\ invoked = 0
    /\ caller = 1
    /\ consecFail = 0
    /\ longestRun = 0
    /\ hoSucc = 0

\* ------------------------------------------------ the breaker registry
\* CircuitBreakerConfig(): the defaults of the dataclass.
DefaultConfig ==
    [failure_threshold |-> 5, recovery_timeout |-> 60, success_threshold |-> 3]
\* A config a caller passes: it opens at the first failure.
CustomConfig ==
    [failure_threshold |-> 1, recovery_timeout |-> 60, success_threshold |-> 1]
\* `config: Optional[CircuitBreakerConfig] = None`
NoConfig == [failure_threshold |-> 0, recovery_timeout |-> 0, success_threshold |-> 0]
ConfigArgs == {NoConfig, CustomConfig}

Names == {"a", "b"}
Holders == 1..3
NoRef == [object |-> 0, name |-> "", asked |-> NoConfig, via |-> ""]

\* CircuitBreaker(name, config)
CircuitBreaker(name, cfg) == [name |-> name, config |-> cfg, stats |-> CircuitBreakerStats]

\* A registry that constructs a breaker at every reference.
get_circuit_breaker_always_new(reg, objs, name, cfg) ==
    [_circuit_breakers |-> Put(reg, name, Len(objs) + 1),
     heap |-> Append(objs, CircuitBreaker(name, IF cfg # NoConfig THEN cfg ELSE DefaultConfig)),
     object |-> Len(objs) + 1]

\* get_circuit_breaker(name, config) on the registry reg and the objects objs:
\* the new registry and objects, and the object returned.
get_circuit_breaker(reg, objs, name, cfg) ==
    IF name \notin DOMAIN reg
    THEN [_circuit_breakers |-> Put(reg, name, Len(objs) + 1),
          heap |-> Append(objs, CircuitBreaker(name, IF cfg # NoConfig THEN cfg
                                                     ELSE DefaultConfig)),
          object |-> Len(objs) + 1]
    ELSE [_circuit_breakers |-> reg, heap |-> objs, object |-> reg[name]]

\* Holder h takes a reference: get_circuit_breaker(name, cfg) (via "get"), or
\* GracefulDegradation(name, fallback, cfg), whose __init__ makes the same call
\* (via "degradation").
reference(h, name, cfg, via) ==
    /\ refs[h] = NoRef
    /\ LET g == get_circuit_breaker(_circuit_breakers, heap, name, cfg)
       IN  /\ _circuit_breakers' = g._circuit_breakers
           /\ heap' = g.heap
           /\ refs' = [refs EXCEPT ![h] = [object |-> g.object, name |-> name,
                                           asked |-> cfg, via |-> via]]
    /\ UNCHANGED <<now, used, cbVars, rlVars, mwVars, idVars, lkVars>>

\* CircuitBreaker.call of a plain (not coroutine) function on breaker b at clock
\* reading t: no await after the spin loop, so the whole call is one step.
call_sync(b, raises, t) ==
    LET s1 == _update_state(b.config, b.stats, t)
        s2 == [s1 EXCEPT !.total_requests = @ + 1]
    IN  IF s1.state = "OPEN" THEN [b EXCEPT !.stats = s1]
        ELSE IF raises THEN [b EXCEPT !.stats = _record_failure(b.config, s2, t)]
        ELSE [b EXCEPT !.stats = _record_success(s2, t)]

\* Holder h makes a call through its reference (breaker.call, or
\* degradation.execute, which calls self.circuit_breaker.call).
use(h, raises) ==
    /\ refs[h] # NoRef
    /\ used.n < MaxUses
    /\ used' = [n |-> used.n + 1, by |-> h]
    /\ heap' = [heap EXCEPT ![refs[h].object] = call_sync(@, raises, now)]
    /\ UNCHANGED <<now, _circuit_breakers, refs, cbVars, rlVars, mwVars, idVars, lkVars>>

\* _get_client_id not under study.
IdleIdentity ==
    /\ incoming = [user_id |-> << >>, has_forwarded_for |-> FALSE,
                   forwarded_for |-> << >>, client_host |-> << >>]
    /\ identity = << >>

\* No registry in use (the specifications of one breaker and of the limiter).
IdleRegistry ==
    /\ _circuit_breakers = << >>
    /\ heap = << >>
    /\ refs = [h \in Holders |-> NoRef]
    /\ used = [n |-> 0, by |-> 1]

\* -------------------------------------------------- InMemoryRateLimiter
\* `if now - self.last_cleanup > 60`, in seconds.
CleanupInterval == 60

\* int() that rounds up.
int_rounds_up(d) == (d + TicksPerSecond - 1) \div TicksPerSecond

\* int() of a float of seconds given in ticks: truncation toward zero.
int(d) == IF d >= 0 THEN d \div TicksPerSecond ELSE -((-d) \div TicksPerSecond)

\* The popleft loop with the comparison strict: an entry exactly `window` old stays.
RECURSIVE popleft_while_strict(_, _)
popleft_while_strict(request_times, cutoff) ==
    IF request_times # << >> /\ request_times[1] < cutoff
    THEN popleft_while_strict(Tail(request_times), cutoff)
    ELSE request_times

\* `while request_times and request_times[0] <= cutoff: request_times.popleft()`
RECURSIVE popleft_while(_, _)
popleft_while(request_times, cutoff) ==
    IF request_times # << >> /\ request_times[1] <= cutoff
    THEN popleft_while(Tail(request_times), cutoff)
    ELSE request_times

\* A sweep that trims the records and deletes no key.
_cleanup_old_entries_keeps_keys(reqs, cutoff_time) ==
    [k \in DOMAIN reqs |-> popleft_while(reqs[k], cutoff_time)]

\* InMemoryRateLimiter._cleanup_old_entries on the map reqs.
_cleanup_old_entries(reqs, cutoff_time) ==
    LET trimmed == [k \in DOMAIN reqs |-> popleft_while(reqs[k], cutoff_time)]
        keys_to_remove == {k \in DOMAIN reqs : trimmed[k] = << >>}
    IN  [k \in DOMAIN reqs \ keys_to_remove |-> trimmed[k]]

\* The limit test off by one: a full window admits one more.
limit_exceeded_off_by_one(n, limit) == n > limit

\* `if len(request_times) >= limit`
limit_exceeded(n, limit) == n >= limit

\* InMemoryRateLimiter.is_allowed(key, limit, window) at clock reading t, on the
\* map reqs and last_cleanup lc: the new map and last_cleanup, and the result.
is_allowed(reqs, lc, key, limit, window, t) ==
    LET due  == t - lc > Ticks(CleanupInterval)
        reqs1 == IF due THEN _cleanup_old_entries(reqs, t - Ticks(window * 2)) ELSE reqs
        lc1  == IF due THEN t ELSE lc
        request_times == popleft_while(Get(reqs1, key), t - Ticks(window))
    IN  IF limit_exceeded(Len(request_times), limit)
        THEN [requests |-> Put(reqs1, key, request_times),
              last_cleanup |-> lc1,
              allowed |-> FALSE,
              retry_after |-> int(request_times[1] + Ticks(window) - t) + 1]
        ELSE [requests |-> Put(reqs1, key, Append(request_times, t)),
              last_cleanup |-> lc1,
              allowed |-> TRUE,
              retry_after |-> None]

\* The keys of a limiter used on its own.
LimiterKeys == {<<"A">>, <<"B">>}

\* The clock reading when the model of the limiter starts: late enough for the
\* limiter to have been constructed more than CleanupInterval ago.
LimiterStart == Ticks(CleanupInterval) + 2

\* How long ago the limiter was constructed, or last swept, when the model
\* starts (in ticks): just now, or so that a sweep falls due after one or three
\* ticks.
CleanupAges == {0, Ticks(CleanupInterval) - 2, Ticks(CleanupInterval)}

NoVerdict ==
    [key |-> << >>, limit |-> 0, window |-> 0, at |-> 0, found |-> << >>,
     allowed |-> TRUE, retry_after |-> None]

\* The admission times of `times` still inside a window of `window` seconds at t.
InWindow(times, window, t) == SelectSeq(times, LAMBDA x : x > t - Ticks(window))

\* The history of admissions adm after a call on `key` at t that returned `allowed`.
Admit(adm, key, window, allowed, t) ==
    IF allowed
    THEN Put(adm, key, Append(InWindow(Get(adm, key), window, t), t))
    ELSE adm

\* One is_allowed(key, limit, window) call on the limiter, of at most max.
check_upto(key, max) ==
    /\ checks < max
    /\ checks' = checks + 1
    /\ LET r == is_allowed(requests, last_cleanup, key,
                           policy[key].limit, policy[key].window, now)
       IN  /\ requests' = r.requests
           /\ last_cleanup' = r.last_cleanup
           /\ verdict' = [key |-> key, limit |-> policy[key].limit,
                          window |-> policy[key].window, at |-> now,
                          found |-> Get(requests, key),
                          allowed |-> r.allowed, retry_after |-> r.retry_after]
           /\ admitted' = Admit(admitted, key, policy[key].window, r.allowed, now)
    /\ UNCHANGED <<now, policy, cbVars, mwVars, rgVars, idVars, lkVars>>

check(key) == check_upto(key, MaxChecks)

\* Time passes for the limiter: the clock advances by one tick, up to max ticks
\* after the start.
ElapseUpto(max) ==
    /\ now < LimiterStart + max
    /\ now' = now + 1
    /\ admitted' = [k \in DOMAIN admitted |->
                        InWindow(admitted[k], policy[k].window, now')]
    /\ UNCHANGED <<requests, last_cleanup, policy, verdict, checks, cbVars, mwVars, rgVars, idVars, lkVars>>

Elapse == ElapseUpto(MaxTime)

\* -------------------------------------------------- RateLimitMiddleware
\* Strings the code takes apart (paths, header values, keys) are sequences of
\* tokens, cut so that a prefix of the string is a prefix of the sequence:
\* "/api/qr/a" is <<"/api", "/qr", "/", "a">>.

\* The prefix test of str.startswith.
startswith(path, prefix) ==
    /\ Len(prefix) <= Len(path)
    /\ SubSeq(path, 1, Len(prefix)) = prefix

\* The limits of the policy table, scaled down to what can be explored; the
\* global limit stays above every endpoint limit, as in the source.
Scaled(limit) ==
    CASE limit = 100 -> 2
      [] limit = 30  -> 1
      [] limit = 20  -> 1
      [] limit = 10  -> 1

\* self.rate_limits, in declaration order (a dict keeps it); windows in seconds.
rate_limits ==
    << [pattern |-> <<"global">>,                       limit |-> Scaled(100), window |-> 60],
       [pattern |-> <<"/api", "/links", "/shorten">>,   limit |-> Scaled(10),  window |-> 60],
       [pattern |-> <<"/api", "/qr", "/">>,             limit |-> Scaled(30),  window |-> 60],
       [pattern |-> <<"/health">>,                      limit |-> Scaled(10),  window |-> 10],
       [pattern |-> <<"/api", "/users", "/">>,          limit |-> Scaled(20),  window |-> 60] >>

\* self.rate_limits["global"]
global_config == rate_limits[1]

\* What _get_endpoint_limit returns when no pattern matches (None).
NoPolicy == [pattern |-> << >>, limit |-> 0, window |-> 0]

\* A lookup that returns the entry with the longest matching pattern.
_get_endpoint_limit_longest(limits, path) ==
    LET hits == {i \in 1..Len(limits) :
                    /\ limits[i].pattern # <<"global">>
                    /\ startswith(path, limits[i].pattern)}
    IN  IF hits = {} THEN NoPolicy
        ELSE limits[CHOOSE i \in hits :
                        \A j \in hits : Len(limits[i].pattern) >= Len(limits[j].pattern)]

\* The loop of _get_endpoint_limit over the items of the dict `limits`: the
\* first entry, in declaration order, that is not "global" and is a prefix of
\* the path.
_get_endpoint_limit_in(limits, path) ==
    LET hits == {i \in 1..Len(limits) :
                    /\ limits[i].pattern # <<"global">>
                    /\ startswith(path, limits[i].pattern)}
    IN  IF hits = {} THEN NoPolicy
        ELSE limits[CHOOSE i \in hits : \A j \in hits : i <= j]

\* RateLimitMiddleware._get_endpoint_limit, on self.rate_limits.
_get_endpoint_limit(path) == _get_endpoint_limit_in(rate_limits, path)

\* Policy tables _get_endpoint_limit is tried on: the table of the source, and
\* that table with an entry for "/api" declared last, declared first, and
\* declared before "global"; that table with "global" declared last; a table
\* of "global" alone; and one whose first endpoint entry matches every path
\* that starts with "/".
ApiPolicy == [pattern |-> <<"/api">>, limit |-> 1, window |-> 30]
RootPolicy == [pattern |-> <<"/">>, limit |-> 1, window |-> 30]
Tables ==
    { rate_limits,
      <<rate_limits[1]>>,
      <<rate_limits[1], RootPolicy>> \o Tail(rate_limits),
      Append(rate_limits, ApiPolicy),
      <<rate_limits[1], ApiPolicy>> \o Tail(rate_limits),
      <<ApiPolicy>> \o rate_limits,
      Append(Tail(rate_limits), rate_limits[1]) }

\* The paths it is tried on ("/healthz" is <<"/health", "z">>).
LookupPaths ==
    { <<"/api", "/links", "/shorten">>,
      <<"/api", "/links", "/shorten", "/", "x">>,
      <<"/api", "/links">>,
      <<"/api", "/qr", "/", "a">>,
      <<"/api", "/qr">>,
      <<"/api", "/users", "/", "me">>,
      <<"/api">>,
      <<"/health">>,
      <<"/health", "z">>,
      <<"/r", "/x">>,
      <<"/", "r", "/x">>,
      <<"/">>,
      <<"global">>,
      <<"global", "/x">> }
NoLookup == [path |-> << >>, policy |-> NoPolicy]

\* _get_endpoint_limit is called with a path.
lookup(path) ==
    /\ looked = NoLookup
    /\ looked' = [path |-> path, policy |-> _get_endpoint_limit_in(table, path)]
    /\ UNCHANGED <<now, table, cbVars, rlVars, mwVars, rgVars, idVars>>

\* _get_endpoint_limit not under study.
IdleLookup ==
    /\ table = rate_limits
    /\ looked = NoLookup

\* RateLimitMiddleware._should_skip_rate_limiting
skip_paths == {<<"/docs">>, <<"/redoc">>, <<"/openapi.json">>}
_should_skip_rate_limiting(path) == \E p \in skip_paths : startswith(path, p)

\* split_first that keeps the whole header.
split_first_keeps_all(h) == h

\* forwarded_for.split(",")[0]
split_first(h) ==
    LET commas == {i \in 1..Len(h) : h[i] = ","}
    IN  IF commas = {} THEN h
        ELSE SubSeq(h, 1, (CHOOSE i \in commas : \A j \in commas : i <= j) - 1)

\* str.strip()
RECURSIVE strip(_)
strip(h) ==
    IF h # << >> /\ h[1] = " " THEN strip(Tail(h))
    ELSE IF h # << >> /\ h[Len(h)] = " " THEN strip(SubSeq(h, 1, Len(h) - 1))
    ELSE h

\* request.headers.get("X-Forwarded-For"): the value of the header when the
\* request has it, None otherwise.  None is the empty sequence here: it is
\* falsy, as the empty string is.
headers_get(request) ==
    IF request.has_forwarded_for THEN request.forwarded_for ELSE << >>

\* RateLimitMiddleware._get_client_id.  An empty sequence is a value that is
\* falsy in the code: no user_id (or an empty one), no X-Forwarded-For header
\* (or an empty one), no request.client.
_get_client_id(request) ==
    LET forwarded_for == headers_get(request)
    IN  IF request.user_id # << >>
        THEN <<"user:">> \o request.user_id
        ELSE IF forwarded_for # << >>
             THEN <<"ip:">> \o strip(split_first(forwarded_for))
             ELSE IF request.client_host # << >>
                  THEN <<"ip:">> \o request.client_host
                  ELSE <<"ip:", "unknown">>

\* The requests _get_client_id is tried on.
UserIds == {<< >>, <<"u1">>, <<"1.1.1.1">>}
ForwardedFors ==
    { << >>,
      <<"1.1.1.1">>,
      <<" ", "1.1.1.1", " ">>,
      <<" ", "1.1.1.1", " ", ",", " ", "2.2.2.2">>,
      <<"1.1.1.1", ",", " ", "2.2.2.2">>,
      <<" ", ",", "2.2.2.2">>,
      <<"unknown", ",", "1.1.1.1">> }
ClientHosts == {<< >>, <<"1.1.1.1">>, <<"3.3.3.3">>}
Requests ==
    [user_id : UserIds, has_forwarded_for : BOOLEAN,
     forwarded_for : ForwardedFors, client_host : ClientHosts]
NoIdentity == << >>

\* _get_client_id is called on the request.
identify ==
    /\ identity = NoIdentity
    /\ identity' = _get_client_id(incoming)
    /\ UNCHANGED <<now, incoming, cbVars, rlVars, mwVars, rgVars, lkVars>>

\* f"{client_id}:{request.url.path}"
endpoint_key(client_id, path) == client_id \o <<":">> \o path

\* The request slots: the dispatch coroutines that can be in flight at once.
Slots == {1, 2}

NoRequest == [client_id |-> << >>, path |-> << >>]
\* A response of dispatch: the slot it was returned in, its status, the error
\* code and error.details.retry_after of its body (when it has them), its headers.
NoResponse == [slot |-> 1, status |-> 0, code |-> "", retry_after |-> None,
               headers |-> << >>]

\* The clients and the paths of the traffic explored.
Clients ==
    { [user_id |-> << >>, has_forwarded_for |-> FALSE, forwarded_for |-> << >>,
       client_host |-> <<"1.2.3.4">>] }
Paths ==
    { <<"/api", "/links", "/shorten">>,
      <<"/api", "/qr", "/", "a">>,
      <<"/api", "/qr", "/", "b">>,
      <<"/health">>,
      <<"/docs">>,
      <<"/r", "/x">> }
Traffic ==
    { [user_id |-> c.user_id, has_forwarded_for |-> c.has_forwarded_for,
       forwarded_for |-> c.forwarded_for,
       client_host |-> c.client_host, path |-> p] : c \in Clients, p \in Paths }

IdleMiddleware ==
    /\ inflight = [r \in Slots |-> NoRequest]
    /\ response = NoResponse
    /\ served = 0
    /\ dispatched = [slot |-> 1, client_id |-> << >>, path |-> << >>]
    /\ passed = << >>

\* A limiter nobody uses (the specifications of the breaker), and a breaker
\* nobody uses (the specifications of the limiter).
IdleLimiter ==
    /\ requests = << >>
    /\ last_cleanup = None
    /\ policy = << >>
    /\ verdict = NoVerdict
    /\ admitted = << >>
    /\ checks = 0

IdleBreaker ==
    /\ config = [failure_threshold |-> 5, recovery_timeout |-> 60, success_threshold |-> 3]
    /\ stats = CircuitBreakerStats
    /\ _lock = FALSE
    /\ pc = [c \in Callers |-> "idle"]
    /\ mode = [c \in Callers |-> "call"]
    /\ fallback = "DefaultValueFallback"
    /\ outcome = [c \in Callers |-> "none"]
    /\ handed = NoOutcome
    /\ attempts = 0
    /\ invoked = 0
    /\ caller = 1
    /\ consecFail = 0
    /\ longestRun = 0
    /\ hoSucc = 0

\* A limiter every key of which is called with the same limit and window.
InitLimiter ==
    /\ now = LimiterStart
    /\ IdleBreaker
    /\ requests = << >>
    /\ \E age \in CleanupAges : last_cleanup = now - age
    /\ \E l \in 1..MaxLimit, w \in 1..MaxWindow :
            policy = [k \in LimiterKeys |-> [limit |-> l, window |-> w]]
    /\ verdict = NoVerdict
    /\ admitted = << >>
    /\ checks = 0
    /\ IdleMiddleware
    /\ IdleRegistry
    /\ IdleIdentity
    /\ IdleLookup

NextLimiter ==
    \/ \E key \in LimiterKeys : check(key)
    \/ Elapse

\* InMemoryRateLimiter used on its own, with one (limit, window) for all keys.
SpecLimiter == InitLimiter /\ [][NextLimiter]_vars

\* A limiter each key of which is called with a limit and a window of its own
\* (windows of 1..MaxWindow + 1 seconds, so that one window can be more than
\* twice another).
InitLimiterMixed ==
    /\ now = LimiterStart
    /\ IdleBreaker
    /\ requests = << >>
    /\ \E age \in CleanupAges : last_cleanup = now - age
    /\ policy \in [LimiterKeys -> [limit : 1..MaxLimit, window : 1..(MaxWindow + 1)]]
    /\ verdict = NoVerdict
    /\ admitted = << >>
    /\ checks = 0
    /\ IdleMiddleware
    /\ IdleRegistry
    /\ IdleIdentity
    /\ IdleLookup

\* InMemoryRateLimiter used on its own, each key with its own (limit, window).
SpecLimiterMixed == InitLimiterMixed /\ [][NextLimiter]_vars

\* The policy of "/api/links/shorten": 10 requests per 60 seconds.
ShortenLimit == 10
ShortenWindow == 60

\* The key of a limiter under a burst.
BurstKey == <<"ip:", "1.2.3.4">>

\* A limiter just constructed, called for one key with the policy of
\* "/api/links/shorten" or with a small limit and window.
InitBurst ==
    /\ now = LimiterStart
    /\ IdleBreaker
    /\ requests = << >>
    /\ last_cleanup = now
    /\ \E c \in {[limit |-> ShortenLimit, window |-> ShortenWindow]}
                 \cup [limit : 1..MaxLimit, window : 1..MaxWindow] :
            policy = [k \in {BurstKey} |-> c]
    /\ verdict = NoVerdict
    /\ admitted = << >>
    /\ checks = 0
    /\ IdleMiddleware
    /\ IdleRegistry
    /\ IdleIdentity
    /\ IdleLookup

\* A call for the key of the burst: one more than the limit fills.
burst_check == check_upto(BurstKey, policy[BurstKey].limit + 1)
\* Time passes during the burst.
burst_elapse == ElapseUpto(Ticks(BurstTime))

NextBurst ==
    \/ burst_check
    \/ burst_elapse

\* InMemoryRateLimiter under a burst of calls for one key.
SpecBurst == InitBurst /\ [][NextBurst]_vars

\* str() of an integer: its decimal digits, a "-" in front of a negative one.
RECURSIVE str(_)
str(n) ==
    IF n < 0 THEN <<"-">> \o str(-n)
    ELSE IF n < 10 THEN <<n>>
    ELSE str(n \div 10) \o <<n % 10>>

\* _create_rate_limit_response that leaves the retry hint out of the response.
_create_rate_limit_response_no_hint(r, retry_after) ==
    [slot |-> r, status |-> 429, code |-> "RATE_LIMIT_EXCEEDED",
     retry_after |-> None, headers |-> << >>]

\* RateLimitMiddleware._create_rate_limit_response, returned in slot r: the
\* Retry-After header is set when retry_after is truthy (not None, not 0).
_create_rate_limit_response(r, retry_after) ==
    [slot |-> r, status |-> 429, code |-> "RATE_LIMIT_EXCEEDED",
     retry_after |-> retry_after,
     headers |-> IF retry_after # None
                 THEN "Retry-After" :> str(retry_after)
                 ELSE << >>]

\* The headers with the count taken over the whole record, expired entries included.
_add_rate_limit_headers_no_window(reqs, client_id, t) ==
    LET current_requests == Len(Get(reqs, client_id))
        remaining == global_config.limit - current_requests
    IN  ("X-RateLimit-Limit" :> str(global_config.limit))
        @@ ("X-RateLimit-Remaining" :> str(IF remaining > 0 THEN remaining ELSE 0))
        @@ ("X-RateLimit-Reset" :> str(int(t + Ticks(global_config.window))))

\* RateLimitMiddleware._add_rate_limit_headers at clock reading t, on the map
\* reqs: the headers it sets.
_add_rate_limit_headers(reqs, client_id, t) ==
    LET request_times == Get(reqs, client_id)
        current_requests ==
            Len(SelectSeq(request_times,
                          LAMBDA req_time : req_time > t - Ticks(global_config.window)))
        remaining == global_config.limit - current_requests
    IN  ("X-RateLimit-Limit" :> str(global_config.limit))
        @@ ("X-RateLimit-Remaining" :> str(IF remaining > 0 THEN remaining ELSE 0))
        @@ ("X-RateLimit-Reset" :> str(int(t + Ticks(global_config.window))))

\* dispatch up to its first await, or to the return of the 429 response, for
\* `request` in slot r; d is the time that passes between the clock reading of
\* the global check and that of the endpoint check.
dispatch(r, request, d) ==
    /\ inflight[r] = NoRequest
    /\ served < MaxRequests
    /\ served' = served + 1
    /\ d > 0 => (now - LimiterStart) % Ticks(Stride) < MaxDrift
    /\ LET path == request.path
           client_id == _get_client_id(request)
           g == is_allowed(requests, last_cleanup, client_id,
                           global_config.limit, global_config.window, now)
           endpoint_limit == _get_endpoint_limit(path)
           ekey == endpoint_key(client_id, path)
           e == is_allowed(g.requests, g.last_cleanup, ekey,
                           endpoint_limit.limit, endpoint_limit.window, now + d)
           adm1 == Admit(admitted, client_id, global_config.window, g.allowed, now)
           pol1 == Put(policy, client_id,
                       [limit |-> global_config.limit, window |-> global_config.window])
           pkey == <<client_id, endpoint_limit.pattern>>
       IN  /\ dispatched' = [slot |-> r, client_id |-> client_id, path |-> path]
           /\ IF _should_skip_rate_limiting(path)
              THEN /\ d = 0
                   /\ inflight' = [inflight EXCEPT ![r] = [client_id |-> client_id, path |-> path]]
                   /\ UNCHANGED <<now, rlVars, response, passed>>
              ELSE IF ~g.allowed
              THEN /\ d = 0
                   /\ response' = _create_rate_limit_response(r, g.retry_after)
                   /\ requests' = g.requests
                   /\ last_cleanup' = g.last_cleanup
                   /\ verdict' = [key |-> client_id, limit |-> global_config.limit,
                                  window |-> global_config.window, at |-> now,
                                  found |-> Get(requests, client_id),
                                  allowed |-> FALSE, retry_after |-> g.retry_after]
                   /\ policy' = pol1
                   /\ admitted' = adm1
                   /\ checks' = checks + 1
                   /\ UNCHANGED <<now, inflight, passed>>
              ELSE IF endpoint_limit = NoPolicy
              THEN /\ d = 0
                   /\ inflight' = [inflight EXCEPT ![r] = [client_id |-> client_id, path |-> path]]
                   /\ requests' = g.requests
                   /\ last_cleanup' = g.last_cleanup
                   /\ verdict' = [key |-> client_id, limit |-> global_config.limit,
                                  window |-> global_config.window, at |-> now,
                                  found |-> Get(requests, client_id),
                                  allowed |-> TRUE, retry_after |-> None]
                   /\ policy' = pol1
                   /\ admitted' = adm1
                   /\ checks' = checks + 1
                   /\ UNCHANGED <<now, response, passed>>
              ELSE /\ now' = now + d
                   /\ requests' = e.requests
                   /\ last_cleanup' = e.last_cleanup
                   /\ verdict' = [key |-> ekey, limit |-> endpoint_limit.limit,
                                  window |-> endpoint_limit.window, at |-> now + d,
                                  found |-> Get(g.requests, ekey),
                                  allowed |-> e.allowed, retry_after |-> e.retry_after]
                   /\ policy' = Put(pol1, ekey, [limit |-> endpoint_limit.limit,
                                                 window |-> endpoint_limit.window])
                   /\ admitted' = Admit(adm1, ekey, endpoint_limit.window, e.allowed, now + d)
                   /\ checks' = checks + 2
                   /\ IF e.allowed
                      THEN /\ inflight' = [inflight EXCEPT ![r] =
                                              [client_id |-> client_id, path |-> path]]
                           /\ passed' = Put(passed, pkey,
                                  Append(InWindow(Get(passed, pkey), endpoint_limit.window,
                                                  now + d), now + d))
                           /\ UNCHANGED response
                      ELSE /\ response' = _create_rate_limit_response(r, e.retry_after)
                           /\ UNCHANGED <<inflight, passed>>
    /\ UNCHANGED <<cbVars, rgVars, idVars, lkVars>>

\* call_next returns and dispatch returns the handler's response: as it is for a
\* skipped path, with the rate limit headers added otherwise.
dispatch_returns(r) ==
    /\ inflight[r] # NoRequest
    /\ inflight' = [inflight EXCEPT ![r] = NoRequest]
    /\ response' = [slot |-> r, status |-> 200, code |-> "", retry_after |-> None,
                    headers |-> IF _should_skip_rate_limiting(inflight[r].path)
                                THEN << >>
                                ELSE _add_rate_limit_headers(requests,
                                        inflight[r].client_id, now)]
    /\ UNCHANGED <<now, served, dispatched, passed, rlVars, cbVars, rgVars, idVars, lkVars>>

\* The window of the policy table's entry with this pattern.
WindowOf(pattern) ==
    LET i == CHOOSE j \in 1..Len(rate_limits) : rate_limits[j].pattern = pattern
    IN  rate_limits[i].window

\* Time passes for the middleware: the clock advances by Stride seconds.
ElapseStride ==
    /\ now + Ticks(Stride) <= LimiterStart + MaxTime * Ticks(Stride)
    /\ now' = now + Ticks(Stride)
    /\ admitted' = [k \in DOMAIN admitted |->
                        InWindow(admitted[k], policy[k].window, now')]
    /\ passed' = [k \in DOMAIN passed |-> InWindow(passed[k], WindowOf(k[2]), now')]
    /\ UNCHANGED <<requests, last_cleanup, policy, verdict, checks, cbVars, rgVars, idVars, lkVars,
                   inflight, response, served, dispatched>>

\* The limiter of the middleware was constructed just now, or it was constructed
\* (or last swept) so long ago that a sweep falls due one stride from now.
InitMiddleware ==
    /\ now = LimiterStart
    /\ IdleBreaker
    /\ requests = << >>
    /\ last_cleanup \in {now, now - Ticks(CleanupInterval) + Ticks(Stride)}
    /\ policy = << >>
    /\ verdict = NoVerdict
    /\ admitted = << >>
    /\ checks = 0
    /\ IdleMiddleware
    /\ IdleRegistry
    /\ IdleIdentity
    /\ IdleLookup

NextMiddleware ==
    \/ \E r \in Slots, request \in Traffic, d \in {0, 1} : dispatch(r, request, d)
    \/ \E r \in Slots : dispatch_returns(r)
    \/ ElapseStride

\* RateLimitMiddleware in front of the handlers, several requests in flight.
SpecMiddleware == InitMiddleware /\ [][NextMiddleware]_vars

\* Traffic in which one client is the peer 1.2.3.4 and another sends an
\* X-Forwarded-For header of its own making, "1.2.3.4:/health".
SpoofClients ==
    Clients \cup
    { [user_id |-> << >>, has_forwarded_for |-> TRUE,
       forwarded_for |-> <<"1.2.3.4", ":", "/health">>,
       client_host |-> <<"5.6.7.8">>] }
SpoofPaths == { <<"/health">>, <<"/r", "/x">> }
SpoofTraffic ==
    { [user_id |-> c.user_id, has_forwarded_for |-> c.has_forwarded_for,
       forwarded_for |-> c.forwarded_for,
       client_host |-> c.client_host, path |-> p] : c \in SpoofClients, p \in SpoofPaths }

NextSpoof ==
    \/ \E r \in Slots, request \in SpoofTraffic, d \in {0, 1} : dispatch(r, request, d)
    \/ \E r \in Slots : dispatch_returns(r)
    \/ ElapseStride

\* RateLimitMiddleware with a client that chooses its X-Forwarded-For value.
SpecSpoof == InitMiddleware /\ [][NextSpoof]_vars

\* Time passes for a limiter in use for minutes, and calls keep arriving: the
\* clock advances by Stride seconds, and MaxChecks further calls can be made
\* at the new clock reading (checks counts the calls since the clock last
\* advanced).
SweepEnd == LimiterStart + MaxTime * Ticks(Stride)
StrideAndCalls ==
    /\ now + Ticks(Stride) <= SweepEnd
    /\ now' = now + Ticks(Stride)
    /\ checks' = 0
    /\ admitted' = [k \in DOMAIN admitted |->
                        InWindow(admitted[k], policy[k].window, now')]
    /\ UNCHANGED <<requests, last_cleanup, policy, verdict, cbVars, mwVars, rgVars,
                   idVars, lkVars>>

\* A limiter constructed just now, or last swept so long ago that a sweep falls
\* due two strides from now; each key has a limit and a window of its own.
InitSweep ==
    /\ now = LimiterStart
    /\ IdleBreaker
    /\ requests = << >>
    /\ last_cleanup \in {now, now - Ticks(CleanupInterval) + Ticks(Stride)}
    /\ policy \in [LimiterKeys -> [limit : 1..MaxLimit, window : 1..(MaxWindow + 1)]]
    /\ verdict = NoVerdict
    /\ admitted = << >>
    /\ checks = 0
    /\ IdleMiddleware
    /\ IdleRegistry
    /\ IdleIdentity
    /\ IdleLookup

NextSweep ==
    \/ \E key \in LimiterKeys : check(key)
    \/ StrideAndCalls

\* What the scheduling gives: the clock keeps advancing and calls keep arriving.
FairSweep ==
    /\ WF_vars(StrideAndCalls)
    /\ WF_vars(\E key \in LimiterKeys : check(key))

\* InMemoryRateLimiter used for minutes, with calls arriving all the time.
SpecSweep == InitSweep /\ [][NextSweep]_vars /\ FairSweep

Init ==
    /\ now = StartTime
    /\ InitBreaker
    /\ IdleLimiter
    /\ IdleMiddleware
    /\ IdleRegistry
    /\ IdleIdentity
    /\ IdleLookup

Next ==
    \/ \E c \in Callers, m \in {"call", "execute"} : call(c, m)
    \/ \E c \in Callers : spin_wake(c)
    \/ \E c \in Callers : op_returns(c)
    \/ \E c \in Callers : op_raises(c)
    \/ reset
    \/ Tick

\* The circuit breaker and its graceful-degradation wrapper.
Spec == Init /\ [][Next]_vars

\* The dependency recovers: an invocation after the first MaxFailing never raises.
op_raises_early(c) ==
    /\ invoked <= MaxFailing
    /\ op_raises(c)

\* Time passes and calls keep being made: the clock advances by one tick, and
\* MaxCalls further attempts can be made at the new clock reading (attempts
\* counts the attempts since the clock last advanced).
TickAndCalls ==
    /\ now < StartTime + MaxTime
    /\ now' = now + 1
    /\ attempts' = 0
    /\ UNCHANGED <<config, stats, _lock, pc, mode, fallback, outcome, handed,
                   invoked, caller, consecFail, longestRun, hoSucc,
                   rlVars, mwVars, rgVars, idVars, lkVars>>

\* A breaker just constructed, called directly.
InitRecovery ==
    /\ Init
    /\ fallback = "DefaultValueFallback"

NextRecovery ==
    \/ \E c \in Callers : call(c, "call")
    \/ \E c \in Callers : spin_wake(c)
    \/ \E c \in Callers : op_returns(c)
    \/ \E c \in Callers : op_raises_early(c)
    \/ reset
    \/ TickAndCalls

\* What the scheduling gives: the clock keeps advancing, calls keep being made
\* (a caller that can enter call, or leave the spin loop, does), and every
\* operation awaited ends.
FairRecovery ==
    /\ WF_vars(TickAndCalls)
    /\ WF_vars(\E c \in Callers : call(c, "call") \/ spin_wake(c))
    /\ WF_vars(\E c \in Callers : op_returns(c) \/ op_raises_early(c))

\* A breaker whose dependency fails at first and then recovers, called for as
\* long as the clock runs.
SpecRecovery == InitRecovery /\ [][NextRecovery]_vars /\ FairRecovery

\* A caller arrives while the attempts left cover it and every caller asleep
\* in the spin loop, so that no sleeper is kept in the loop by the bound on the
\* attempts.
arrive(c) ==
    /\ attempts + Cardinality({x \in Callers : pc[x] = "spin"}) < MaxCalls
    /\ call(c, "call")

\* CircuitBreaker.reset, after which the history kept of the breaker starts
\* afresh: callers can arrive for ever.
reset_and_forget ==
    /\ stats' = CircuitBreakerStats
    /\ attempts' = 0
    /\ invoked' = 0
    /\ consecFail' = 0
    /\ longestRun' = 0
    /\ hoSucc' = 0
    /\ UNCHANGED <<now, config, _lock, pc, mode, fallback, outcome, handed, caller,
                   rlVars, mwVars, rgVars, idVars, lkVars>>

NextArrivals ==
    \/ \E c \in Callers : arrive(c)
    \/ \E c \in Callers : spin_wake(c)
    \/ \E c \in Callers : op_returns(c)
    \/ \E c \in Callers : op_raises(c)
    \/ reset_and_forget
    \/ Tick

\* What the scheduling gives: every operation awaited ends, and every sleeper
\* of the spin loop wakes up again and again and leaves the loop when it finds
\* the flag cleared at that moment.  Nothing makes a sleeper wake up while the
\* flag is cleared.
FairArrivals ==
    /\ \A c \in Callers : WF_vars(op_returns(c) \/ op_raises(c))
    /\ \A c \in Callers : WF_vars(spin_wake(c))

\* A breaker whose callers keep arriving.
SpecArrivals == InitRecovery /\ [][NextArrivals]_vars /\ FairArrivals

\* The callers of a breaker under contention.
Contenders == 1..MaxContenders

\* A breaker just constructed, with MaxContenders callers.
InitContend ==
    /\ now = StartTime
    /\ config \in CircuitBreakerConfig
    /\ stats = CircuitBreakerStats
    /\ _lock = FALSE
    /\ pc = [c \in Contenders |-> "idle"]
    /\ mode = [c \in Contenders |-> "call"]
    /\ fallback = "DefaultValueFallback"
    /\ outcome = [c \in Contenders |-> "none"]
    /\ handed = NoOutcome
    /\ attempts = 0
    /\ invoked = 0
    /\ caller = 1
    /\ consecFail = 0
    /\ longestRun = 0
    /\ hoSucc = 0
    /\ IdleLimiter
    /\ IdleMiddleware
    /\ IdleRegistry
    /\ IdleIdentity
    /\ IdleLookup

NextContend ==
    \/ \E c \in Contenders : call(c, "call")
    \/ \E c \in Contenders : spin_wake(c)
    \/ \E c \in Contenders : op_returns(c)
    \/ \E c \in Contenders : op_raises(c)
    \/ reset
    \/ Tick

\* CircuitBreaker.call under contention: MaxContenders coroutines on one breaker.
SpecContend == InitContend /\ [][NextContend]_vars

InitRegistry ==
    /\ now = StartTime
    /\ IdleBreaker
    /\ IdleLimiter
    /\ IdleMiddleware
    /\ IdleRegistry
    /\ IdleIdentity
    /\ IdleLookup

NextRegistry ==
    \/ \E h \in Holders, name \in Names, cfg \in ConfigArgs, via \in {"get", "degradation"} :
            reference(h, name, cfg, via)
    \/ \E h \in Holders, raises \in BOOLEAN : use(h, raises)

\* The process-wide registry of breakers and the references handed out.
SpecRegistry == InitRegistry /\ [][NextRegistry]_vars

InitIdentity ==
    /\ now = StartTime
    /\ IdleBreaker
    /\ IdleLimiter
    /\ IdleMiddleware
    /\ IdleRegistry
    /\ incoming \in Requests
    /\ identity = NoIdentity
    /\ IdleLookup

NextIdentity == identify

\* _get_client_id on every request of Requests.
SpecIdentity == InitIdentity /\ [][NextIdentity]_vars

InitLookup ==
    /\ now = StartTime
    /\ IdleBreaker
    /\ IdleLimiter
    /\ IdleMiddleware
    /\ IdleRegistry
    /\ IdleIdentity
    /\ table \in Tables
    /\ looked = NoLookup

NextLookup == \E path \in LookupPaths : lookup(path)

\* _get_endpoint_limit on every table of Tables and every path of LookupPaths.
SpecLookup == InitLookup /\ [][NextLookup]_vars

\* ------------------------------------------------- claims on the breaker
\* A step in which a call attempt got past the spin loop.
Attempt == attempts' = attempts + 1
\* A step in which an invoked operation raised (resp. returned).
OpRaised == consecFail' = consecFail + 1
OpReturned == \E c \in Callers : pc[c] = "op" /\ pc'[c] = "idle" /\ ~OpRaised
\* The breaker is OPEN and recovery_timeout has not elapsed since the last failure.
OpenNotRecovered ==
    /\ stats.state = "OPEN"
    /\ now - stats.last_failure_time < Ticks(config.recovery_timeout)
\* No reset ever discarded an invocation, and every invocation so far raised.
OnlyFailuresSoFar ==
    /\ stats.total_requests = invoked
    /\ consecFail = invoked

\* C2: after failure_threshold consecutive invocations that raised, the breaker is
\* OPEN (between calls); a call attempted while OPEN before recovery_timeout has
\* elapsed raises CircuitBreakerError without invoking the operation; so on a
\* fresh breaker whose operation always raises, N + 1 or more calls made at once
\* invoke the operation exactly N times.
C2_OpensAfterNFailures ==
    /\ [](~_lock /\ consecFail >= config.failure_threshold => stats.state = "OPEN")
    /\ [][OpenNotRecovered /\ Attempt =>
            /\ invoked' = invoked
            /\ pc'[caller'] = "idle"
            /\ mode'[caller'] = "call" => outcome'[caller'] = "CircuitBreakerError"]_vars
    /\ [](now = StartTime /\ OnlyFailuresSoFar /\ attempts > config.failure_threshold
            => invoked = config.failure_threshold)

\* C2 witness: N failures and a rejected call more, at once, on a fresh breaker.
C2_Witness ==
    /\ now = StartTime /\ OnlyFailuresSoFar
    /\ attempts = config.failure_threshold + 1
    /\ config.failure_threshold = MaxThreshold
    /\ mode[caller] = "call" /\ outcome[caller] = "CircuitBreakerError"

\* C3 as stated: once success_threshold consecutive invocations have returned
\* while HALF_OPEN, the breaker is CLOSED with failure_count 0.
C3_ClosedAfterMSuccesses ==
    hoSucc >= config.success_threshold
        => stats.state = "CLOSED" /\ stats.failure_count = 0

\* C3 amended: once success_threshold consecutive invocations have returned
\* while HALF_OPEN, the breaker is still HALF_OPEN with success_count at the
\* threshold, or already CLOSED with failure_count 0; it is the next call attempt
\* that closes it, with failure_count 0, before invoking its operation.
C3_ClosesOnNextAttempt ==
    /\ [](hoSucc >= config.success_threshold =>
            \/ /\ stats.state = "HALF_OPEN"
               /\ stats.success_count >= config.success_threshold
            \/ /\ stats.state = "CLOSED"
               /\ stats.failure_count = 0)
    /\ [][hoSucc >= config.success_threshold /\ stats.state = "HALF_OPEN" /\ Attempt =>
            /\ stats'.state = "CLOSED"
            /\ stats'.failure_count = 0
            /\ pc'[caller'] = "op"
            /\ invoked' = invoked + 1]_vars

\* C3 witness: the attempt after M half-open successes has closed the breaker
\* and its operation is in flight.
C3_Witness ==
    /\ hoSucc = config.success_threshold
    /\ config.success_threshold = MaxThreshold
    /\ stats.state = "CLOSED"
    /\ stats.success_count = config.success_threshold
    /\ pc[caller] = "op"

\* C4: an invocation that raises while the breaker is HALF_OPEN leaves it OPEN;
\* every entry into HALF_OPEN starts with success_count 0, and while HALF_OPEN
\* success_count counts exactly the invocations that returned in this episode.
C4_HalfOpenFailureReopens ==
    /\ [][stats.state = "HALF_OPEN" /\ OpRaised => stats'.state = "OPEN"]_vars
    /\ [][stats.state # "HALF_OPEN" /\ stats'.state = "HALF_OPEN"
            => stats'.success_count = 0]_vars
    /\ [](stats.state = "HALF_OPEN" => stats.success_count = hoSucc)

\* C4 witness: an invocation raised in a HALF_OPEN episode that had counted a
\* success and had not reached the threshold, and the breaker is OPEN.
C4_Witness ==
    /\ stats.state = "OPEN"
    /\ ~_lock
    /\ consecFail = 1
    /\ stats.success_count >= 1
    /\ stats.success_count < config.success_threshold
    /\ stats.failure_count > config.failure_threshold

\* C5: a call attempted while OPEN once recovery_timeout has elapsed since the
\* last failure moves the breaker to HALF_OPEN and invokes the operation; a call
\* attempted earlier is rejected and changes nothing; OPEN becomes HALF_OPEN in
\* call attempts only.
C5_LazyRecovery ==
    /\ [][stats.state = "OPEN" /\ ~OpenNotRecovered /\ Attempt =>
            /\ pc'[caller'] = "op"
            /\ stats'.state = "HALF_OPEN"
            /\ invoked' = invoked + 1]_vars
    /\ [][OpenNotRecovered /\ Attempt =>
            /\ pc'[caller'] = "idle"
            /\ outcome'[caller'] = Raised(mode'[caller'], "CircuitBreakerError")
            /\ stats'.state = "OPEN"]_vars
    /\ [][stats.state = "OPEN" /\ stats'.state = "HALF_OPEN" => Attempt]_vars

\* C5 witness: the probe call made exactly recovery_timeout after the last
\* failure is in flight, the breaker HALF_OPEN.
C5_Witness ==
    /\ stats.state = "HALF_OPEN"
    /\ pc[caller] = "op"
    /\ now - stats.last_failure_time = Ticks(config.recovery_timeout)
    /\ stats.success_count = 0

\* C6: with a CachedFallback or DefaultValueFallback, GracefulDegradation.execute
\* never raises: it ends with the operation's result or the fallback's value;
\* a rejected execute does not invoke the operation; when the operation raised,
\* the failure is recorded in the step that hands out the fallback value.
C6_ExecuteNeverRaises ==
    /\ [](fallback # "FallbackStrategy" =>
            \A c \in Callers : mode[c] = "execute" =>
                outcome[c] \in {"none", "pending", "result", "default_value"})
    /\ [][fallback # "FallbackStrategy" /\ Attempt /\ mode'[caller'] = "execute"
          /\ _update_state(config, stats, now).state = "OPEN" =>
            /\ outcome'[caller'] = "default_value"
            /\ invoked' = invoked]_vars
    /\ [][\A c \in Callers :
            fallback # "FallbackStrategy" /\ mode[c] = "execute"
            /\ pc[c] = "op" /\ pc'[c] = "idle" =>
                IF OpRaised
                THEN /\ outcome'[c] = "default_value"
                     /\ stats'.total_failures = stats.total_failures + 1
                     /\ stats'.failure_count = stats.failure_count + 1
                     /\ stats'.last_failure_time = now
                ELSE outcome'[c] = "result"]_vars

\* C6 witness: an execute whose operation raised ended with the fallback's value,
\* and that failure opened the breaker.
C6_Witness ==
    /\ mode[caller] = "execute"
    /\ pc[caller] = "idle"
    /\ outcome[caller] = "default_value"
    /\ attempts = invoked
    /\ consecFail = config.failure_threshold
    /\ stats.state = "OPEN"

\* ------------------------------------------------- claims on the limiter
\* A step that is an is_allowed call on key k.
Checked(k) == checks' = checks + 1 /\ verdict'.key = k

\* C1: with one limit L and window W for all calls, no key has more than L
\* admissions in a window (t - W, t]; a call on a key that already has L
\* admissions inside the window is rejected with retry_after > 0.
C1_AtMostLPerWindow ==
    /\ [](\A k \in DOMAIN admitted : Len(admitted[k]) <= policy[k].limit)
    /\ [][\A k \in LimiterKeys :
            Len(Get(admitted, k)) >= policy[k].limit /\ Checked(k) =>
                /\ ~verdict'.allowed
                /\ verdict'.retry_after > 0]_vars

\* C1 witness: a call was rejected while the key had L admissions in its window,
\* all older than the call.
C1_Witness ==
    /\ ~verdict.allowed
    /\ verdict.at = now
    /\ verdict.limit = MaxLimit
    /\ Len(Get(admitted, verdict.key)) = verdict.limit
    /\ \A i \in 1..Len(admitted[verdict.key]) : admitted[verdict.key][i] < now
    /\ verdict.retry_after > 0

\* C8: a call on a key whose record is full (L timestamps), made W seconds or
\* more after the oldest recorded timestamp, is admitted.
C8_AdmittedAfterWindow ==
    [][\A k \in LimiterKeys :
        /\ Len(Get(requests, k)) >= policy[k].limit
        /\ now >= requests[k][1] + Ticks(policy[k].window)
        /\ Checked(k)
        => verdict'.allowed]_vars

\* C8 witness: a call made exactly W seconds after the oldest timestamp of a
\* full record was admitted.
C8_Witness ==
    /\ verdict.allowed
    /\ verdict.limit = MaxLimit
    /\ Len(verdict.found) = verdict.limit
    /\ verdict.at = verdict.found[1] + Ticks(verdict.window)

\* ---------------------------------------------- claims on the middleware
\* A step that is a dispatch call, for a path that is not skipped.
Dispatching ==
    /\ served' = served + 1
    /\ ~_should_skip_rate_limiting(dispatched'.path)
\* That dispatch call returned 429 (resp. went on to the handler).
Rejected ==
    /\ response'.status = 429
    /\ response'.slot = dispatched'.slot
    /\ inflight' = inflight
Forwarded == inflight'[dispatched'.slot] # NoRequest
\* The client of that dispatch call already has as many admissions of the
\* global check inside the global window as the global limit allows.
GlobalExhausted ==
    Len(InWindow(Get(admitted, dispatched'.client_id), global_config.window, now))
        >= global_config.limit
\* The path of that dispatch call has an endpoint policy, and the client already
\* has as many admissions of the endpoint check for this path, inside the
\* policy's window, as its limit allows.
EndpointExhausted ==
    LET endpoint_limit == _get_endpoint_limit(dispatched'.path)
        ekey == endpoint_key(dispatched'.client_id, dispatched'.path)
    IN  /\ endpoint_limit # NoPolicy
        /\ Len(InWindow(Get(admitted, ekey), endpoint_limit.window, now'))
              >= endpoint_limit.limit

\* Every record of the limiter holds at most `limit` timestamps inside its
\* window: each check-then-append runs on the record as it is (no await inside
\* is_allowed or between the two checks of dispatch).  Holds under SpecMiddleware.
RecordedWithinLimit ==
    \A k \in DOMAIN requests :
        Len(InWindow(requests[k], policy[k].window, now)) <= policy[k].limit

\* C7: whatever the interleaving of the dispatch coroutines, no key has more
\* admissions inside its window than its limit; in particular a request that
\* finds the global window of its client full is rejected, also while other
\* requests of the client are in flight.
C7_NoDoubleAdmission ==
    /\ [](\A k \in DOMAIN admitted :
            Len(InWindow(admitted[k], policy[k].window, now)) <= policy[k].limit)
    /\ [][Dispatching /\ GlobalExhausted => Rejected]_vars

\* C9: a request is rejected when its client has exhausted the global limit, or
\* the endpoint limit of its path, whatever the other counter says; and it is
\* admitted when neither is exhausted, whatever the client did on other paths.
C9_IndependentCounters ==
    [][Dispatching =>
        /\ GlobalExhausted => Rejected
        /\ EndpointExhausted => Rejected
        /\ ~GlobalExhausted /\ ~EndpointExhausted => Forwarded]_vars

\* C10: for every client and every endpoint pattern of the table, at most
\* `limit` requests to paths under the pattern pass the checks inside a window.
C10_PerPatternLimit ==
    \A k \in DOMAIN passed :
        \A i \in 1..Len(rate_limits) :
            rate_limits[i].pattern = k[2] => Len(passed[k]) <= rate_limits[i].limit

\* The last dispatch call was answered 429: at clock reading verdict.at, with
\* Retry-After response.retry_after, and no dispatch call was made since.
LastRejected ==
    /\ response.status = 429
    /\ response.slot = dispatched.slot
    /\ inflight[dispatched.slot] = NoRequest
\* A step that is a dispatch call of the client and for the path of the last one.
SameAgain ==
    /\ served' = served + 1
    /\ dispatched'.client_id = dispatched.client_id
    /\ dispatched'.path = dispatched.path

\* C11: when a request was answered 429 with Retry-After r at time t and the
\* client's next request is one for the same path at t + r or later, that
\* request is admitted.
C11_RetryAfterHonoured ==
    [][LastRejected /\ SameAgain /\ now >= verdict.at + Ticks(response.retry_after)
        => Forwarded]_vars

\* A step that is a dispatch call one of whose checks rejected (verdict' is that
\* check: dispatch makes no check after a rejection).
CheckRejected ==
    /\ served' = served + 1
    /\ checks' > checks
    /\ ~verdict'.allowed

\* C12: when the global or the endpoint check rejects, dispatch returns without
\* handing the request to the handler, with status 429, a Retry-After header
\* that is the string of the retry_after the rejecting check returned, error code
\* RATE_LIMIT_EXCEEDED and that same retry_after in error.details; and dispatch
\* answers 429 in no other case.
C12_RejectionResponse ==
    /\ [][CheckRejected =>
            /\ inflight' = inflight
            /\ response'.slot = dispatched'.slot
            /\ response'.status = 429
            /\ response'.code = "RATE_LIMIT_EXCEEDED"
            /\ response'.retry_after = verdict'.retry_after
            /\ DOMAIN response'.headers = {"Retry-After"}
            /\ response'.headers["Retry-After"] = str(verdict'.retry_after)]_vars
    /\ [][response' # response /\ response'.status = 429 => CheckRejected]_vars

\* C12 witness: a request for a path the client has an endpoint record of was
\* answered 429 by the global check, with the check's two-digit retry_after in
\* the Retry-After header and in the body.
C12_Witness ==
    /\ LastRejected
    /\ verdict.key = dispatched.client_id
    /\ ~verdict.allowed
    /\ response.retry_after = verdict.retry_after
    /\ response.retry_after > 9
    /\ response.headers["Retry-After"] = str(response.retry_after)
    /\ Len(response.headers["Retry-After"]) = 2
    /\ endpoint_key(dispatched.client_id, dispatched.path) \in DOMAIN requests

\* A step in which dispatch returns the handler's response to a request that was
\* not skipped, in slot r.
Responded(r) ==
    /\ inflight[r] # NoRequest
    /\ inflight'[r] = NoRequest
    /\ ~_should_skip_rate_limiting(inflight[r].path)
\* The timestamps of the client's global record inside the global window at t.
GlobalCount(reqs, client_id, t) ==
    Cardinality({i \in 1..Len(Get(reqs, client_id)) :
                    Get(reqs, client_id)[i] > t - Ticks(global_config.window)})

\* C13: the response to an admitted, non-skipped request carries exactly the
\* three X-RateLimit headers: Limit is the global limit, Remaining is
\* max(0, global limit - timestamps of the client's global record newer than
\* now - global window) as the record is when the response is produced, a number
\* in 0..global limit, and Reset is floor(now + global window) in seconds; also
\* for a path that has an endpoint policy.
C13_GlobalHeaders ==
    [][\A r \in Slots : Responded(r) =>
        LET counted == GlobalCount(requests, inflight[r].client_id, now)
            left == IF counted >= global_config.limit THEN 0
                    ELSE global_config.limit - counted
        IN  /\ response'.slot = r
            /\ DOMAIN response'.headers =
                   {"X-RateLimit-Limit", "X-RateLimit-Remaining", "X-RateLimit-Reset"}
            /\ response'.headers["X-RateLimit-Limit"] = str(global_config.limit)
            /\ left \in 0..global_config.limit
            /\ response'.headers["X-RateLimit-Remaining"] = str(left)
            /\ response'.headers["X-RateLimit-Reset"] =
                   str((now + Ticks(global_config.window)) \div TicksPerSecond)]_vars

\* C13 witness: the response to a request for a path with an endpoint policy,
\* produced when the client's global record holds an expired timestamp and one
\* inside the window: Remaining is the global limit less one.
C13_Witness ==
    /\ response.status = 200
    /\ response.slot = dispatched.slot
    /\ inflight[response.slot] = NoRequest
    /\ _get_endpoint_limit(dispatched.path) # NoPolicy
    /\ "X-RateLimit-Remaining" \in DOMAIN response.headers
    /\ response.headers["X-RateLimit-Remaining"] = str(1)
    /\ Len(Get(requests, dispatched.client_id)) = 2
    /\ Get(requests, dispatched.client_id)[1] <= now - Ticks(global_config.window)

\* ------------------------------------------ further claims on the breaker
\* C14: CircuitBreaker.call hands to its caller the result of its own invocation
\* of the operation when that returns, and the exception of its own invocation
\* when that raises, also when this failure opens the breaker;
\* a CircuitBreakerError comes only from call attempts that did not invoke the
\* operation, and every rejected attempt raises it.
C14_PropagatesOutcome ==
    /\ [][OpReturned => handed' = Result(invoked)]_vars
    /\ [][OpRaised => handed' = OpException(invoked)]_vars
    /\ [][handed' # handed /\ handed'.kind = "CircuitBreakerError" =>
            Attempt /\ invoked' = invoked /\ pc'[caller'] = "idle"]_vars
    /\ [][Attempt /\ invoked' = invoked => handed' = CircuitBreakerError]_vars
    /\ [][\A c \in Callers : mode[c] = "call" /\ pc[c] = "op" /\ pc'[c] = "idle" =>
            outcome'[c] = handed'.kind]_vars

\* C14 witness: the failure that opened the breaker (the N-th in a row, after an
\* earlier invocation) was re-raised to the direct caller as the exception of
\* that very invocation.
C14_Witness ==
    /\ stats.state = "OPEN"
    /\ ~_lock
    /\ config.failure_threshold = MaxThreshold
    /\ consecFail = config.failure_threshold
    /\ stats.failure_count = config.failure_threshold
    /\ invoked > config.failure_threshold
    /\ handed = OpException(invoked)
    /\ mode[caller] = "call"
    /\ outcome[caller] = "Exception"

\* A step in which a call attempt was rejected: it got past the spin loop and
\* did not invoke the operation.
RejectedAttempt == Attempt /\ invoked' = invoked

\* C15: a rejected call leaves every field of the stats as it was (state,
\* failure_count, success_count, total_requests, total_failures,
\* last_failure_time, last_success_time), so the time at which the breaker
\* becomes eligible for HALF_OPEN, last_failure_time + recovery_timeout, does
\* not move; and only an OPEN breaker rejects.
C15_RejectionChangesNothing ==
    [][RejectedAttempt =>
        /\ stats.state = "OPEN"
        /\ stats' = stats
        /\ config' = config]_vars

\* C15 witness: the only failure so far opened the breaker, a call was rejected
\* since and the clock has moved on: the stats still count one request and one
\* failure, and last_failure_time is the time of that failure.
C15_Witness ==
    /\ handed = CircuitBreakerError
    /\ stats.state = "OPEN"
    /\ attempts > invoked
    /\ pc[caller] = "idle"
    /\ stats.last_failure_time < now
    /\ stats.total_requests = invoked
    /\ stats.total_failures = consecFail
    /\ invoked = 1

\* -------------------------------------------- further claims on the limiter
\* C16: a call on a key is admitted exactly when the key has fewer admissions of
\* its own inside its own window than its own limit, whatever calls were made on
\* other keys: calls on one key neither cause a rejection nor an admission on
\* another.
C16_KeysIndependent ==
    [][\A k \in LimiterKeys : Checked(k) =>
        (verdict'.allowed <=>
            Len(InWindow(Get(admitted, k), policy[k].window, now)) < policy[k].limit)]_vars

\* ---------------------------------------------------- claims on the registry
\* The breaker holder h refers to.
Referred(h) == heap[refs[h].object]
\* A step in which holder h took its reference, and one in which it made a call.
Referencing(h) == refs[h] = NoRef /\ refs'[h] # NoRef
Using(h) == used'.n = used.n + 1 /\ used'.by = h

\* C17: all references to one name, from get_circuit_breaker or held by a
\* GracefulDegradation, are the same breaker, and references to different names
\* are different breakers; the first reference to a name constructs the breaker
\* with fresh stats and the config passed (the default config when none is
\* passed), a later reference constructs nothing and leaves the config of every
\* breaker as it is; a call made through one reference changes the stats seen
\* through every reference to that name, and nothing of any other breaker.
C17_OneBreakerPerName ==
    /\ [](\A h1, h2 \in Holders : refs[h1] # NoRef /\ refs[h2] # NoRef =>
            /\ Referred(h1).name = refs[h1].name
            /\ refs[h1].name = refs[h2].name <=> refs[h1].object = refs[h2].object)
    /\ [][\A h \in Holders : Referencing(h) =>
            IF refs'[h].name \in DOMAIN _circuit_breakers
            THEN /\ heap' = heap
                 /\ refs'[h].object = _circuit_breakers[refs'[h].name]
            ELSE /\ Len(heap') = Len(heap) + 1
                 /\ \A o \in DOMAIN heap : heap'[o] = heap[o]
                 /\ heap'[refs'[h].object].stats = CircuitBreakerStats
                 /\ heap'[refs'[h].object].config =
                        (IF refs'[h].asked = NoConfig THEN DefaultConfig
                         ELSE refs'[h].asked)]_vars
    /\ [][\A h \in Holders : Using(h) =>
            /\ \A o \in DOMAIN heap :
                    /\ heap'[o].config = heap[o].config
                    /\ o # refs[h].object => heap'[o] = heap[o]
            /\ \A h2 \in Holders : refs[h2] # NoRef /\ refs[h2].name = refs[h].name =>
                    /\ Referred(h2)' = Referred(h)'
                    /\ Referred(h2).stats.state # "OPEN" =>
                         Referred(h2)'.stats.total_requests
                             = Referred(h2).stats.total_requests + 1]_vars

\* C17 witness: name "a" was first referred to without a config, then by a
\* GracefulDegradation that passed a config of its own; a failure recorded
\* through the GracefulDegradation is seen through the first reference, the
\* breaker has the default config (so it is still CLOSED), and the breaker of
\* name "b" is untouched.
C17_Witness ==
    \E h1, h2, h3 \in Holders :
        /\ refs[h1] # NoRef /\ refs[h2] # NoRef /\ refs[h3] # NoRef
        /\ refs[h1].name = "a" /\ refs[h1].asked = NoConfig /\ refs[h1].via = "get"
        /\ refs[h2].name = "a" /\ refs[h2].asked = CustomConfig
        /\ refs[h2].via = "degradation"
        /\ refs[h3].name = "b" /\ refs[h3].asked = CustomConfig
        /\ used.n = 1 /\ used.by = h2
        /\ Referred(h1).config = DefaultConfig
        /\ Referred(h1).stats.total_failures = 1
        /\ Referred(h1).stats.state = "CLOSED"
        /\ Referred(h3).config = CustomConfig
        /\ Referred(h3).stats = CircuitBreakerStats

\* ------------------------------------------ the counters and the reset
\* A step that is a reset() of the breaker.
Resetting == stats # CircuitBreakerStats /\ stats' = CircuitBreakerStats /\ ~Attempt

\* C18: a step of call never decreases total_requests or total_failures;
\* total_requests grows by one with every invocation of the operation and not at
\* all with a rejected call, total_failures grows by one with every invocation
\* that raises, in every state of the breaker; and total_failures is at most
\* total_requests in every reachable state, resets during a call included.
C18_MonotonicCounters ==
    /\ [][~Resetting =>
            /\ stats'.total_requests >= stats.total_requests
            /\ stats'.total_failures >= stats.total_failures]_vars
    /\ [][Attempt =>
            stats'.total_requests = stats.total_requests + (invoked' - invoked)]_vars
    /\ [][OpRaised => stats'.total_failures = stats.total_failures + 1]_vars
    /\ [][OpReturned => stats'.total_failures = stats.total_failures]_vars
    /\ [](stats.total_failures <= stats.total_requests)

\* C19: a reset leaves the stats as constructed (CLOSED, the four counters 0,
\* both times unset) and the config as it was, from every state, OPEN included;
\* a call attempted on the breaker as the reset left it is passed to the
\* operation; and from there the breaker opens only with the
\* failure_threshold-th failure in a row recorded since the reset.
C19_ResetRestoresClosed ==
    /\ [][Resetting =>
            /\ stats'.state = "CLOSED"
            /\ stats'.failure_count = 0 /\ stats'.success_count = 0
            /\ stats'.total_requests = 0 /\ stats'.total_failures = 0
            /\ stats'.last_failure_time = None /\ stats'.last_success_time = None
            /\ config' = config]_vars
    /\ [][Attempt /\ stats = CircuitBreakerStats => invoked' = invoked + 1]_vars
    /\ [][stats.state = "CLOSED" /\ stats'.state = "OPEN" =>
            /\ OpRaised
            /\ consecFail' >= config.failure_threshold
            /\ stats'.total_failures >= config.failure_threshold]_vars

\* C19 witness: with no time passed since construction, the breaker opened, a
\* call was rejected, a reset followed, and exactly failure_threshold further
\* calls were passed to the operation and failed: the breaker is OPEN again.
C19_Witness ==
    /\ now = StartTime
    /\ config.failure_threshold = MaxThreshold
    /\ stats.state = "OPEN"
    /\ stats.total_requests = config.failure_threshold
    /\ stats.total_failures = config.failure_threshold
    /\ consecFail = config.failure_threshold
    /\ invoked = 2 * config.failure_threshold
    /\ attempts > invoked
    /\ handed = OpException(invoked)

\* ------------------------------------------------- the client identity
\* The header up to its first comma is lead spaces, e, trail spaces, and e
\* neither starts nor ends with a space.
FirstEntryTrimmed(e, h) ==
    \E lead, trail \in 0..Len(h) :
        LET n == lead + Len(e) + trail
        IN  /\ n <= Len(h)
            /\ n = Len(h) \/ h[n + 1] = ","
            /\ \A i \in 1..n : h[i] # ","
            /\ \A i \in 1..lead : h[i] = " "
            /\ \A i \in 1..Len(e) : h[lead + i] = e[i]
            /\ \A i \in 1..trail : h[lead + Len(e) + i] = " "
            /\ e = << >> \/ (e[1] # " " /\ e[Len(e)] # " ")

\* The identity returned is "ip:" followed by the trimmed first entry of h.
IpOfFirstEntry(h) ==
    /\ Len(identity) >= 1
    /\ identity[1] = "ip:"
    /\ FirstEntryTrimmed(Tail(identity), h)

\* The identity of a request without a usable X-Forwarded-For header.
IpOfPeer ==
    identity = IF incoming.client_host # << >>
               THEN <<"ip:">> \o incoming.client_host
               ELSE <<"ip:", "unknown">>

\* Identities of a user and of an address are never the same.
NeverCollide ==
    \A a, b \in Requests :
        a.user_id # << >> /\ b.user_id = << >> =>
            _get_client_id(a) # _get_client_id(b)

\* C20 as stated: the first entry of X-Forwarded-For is used whenever the
\* request has that header, whatever its value.
C20_ForwardedForWhenPresent ==
    identity # NoIdentity =>
        /\ incoming.user_id # << >> => identity = <<"user:">> \o incoming.user_id
        /\ incoming.user_id = << >> /\ incoming.has_forwarded_for =>
               IpOfFirstEntry(incoming.forwarded_for)
        /\ incoming.user_id = << >> /\ ~incoming.has_forwarded_for => IpOfPeer
        /\ NeverCollide

\* C20: _get_client_id returns "user:" and the user_id for a non-empty
\* user_id; otherwise "ip:" and the trimmed first entry of X-Forwarded-For
\* when the request has that header with a non-empty value; otherwise "ip:"
\* and the peer host; otherwise "ip:unknown" (an X-Forwarded-For header with
\* an empty value counts as no header); and the identity of a request with a
\* user_id never equals the identity of a request without one.
C20_ClientIdentity ==
    identity # NoIdentity =>
        /\ incoming.user_id # << >> => identity = <<"user:">> \o incoming.user_id
        /\ /\ incoming.user_id = << >>
           /\ incoming.has_forwarded_for
           /\ incoming.forwarded_for # << >>
           => IpOfFirstEntry(incoming.forwarded_for)
        /\ /\ incoming.user_id = << >>
           /\ ~(incoming.has_forwarded_for /\ incoming.forwarded_for # << >>)
           => IpOfPeer
        /\ NeverCollide

\* C20 witness: a request without a user_id, with a peer host, and with an
\* X-Forwarded-For of two entries with spaces around the first one was
\* identified by that first entry.
C20_Witness ==
    /\ incoming.user_id = << >>
    /\ incoming.has_forwarded_for
    /\ incoming.forwarded_for = <<" ", "1.1.1.1", " ", ",", " ", "2.2.2.2">>
    /\ incoming.client_host = <<"3.3.3.3">>
    /\ identity = <<"ip:", "1.1.1.1">>

\* ------------------------------------------------------ the retry hint
\* The timestamps the last is_allowed call found for its key that were still
\* inside its window, and the oldest of them.
Remaining == {verdict.found[i] : i \in {j \in 1..Len(verdict.found) :
                    verdict.found[j] > verdict.at - Ticks(verdict.window)}}
OldestRemaining == CHOOSE x \in Remaining : \A y \in Remaining : x <= y

\* C21: a rejecting is_allowed call returns floor(oldest remaining timestamp +
\* window - now) + 1, which is at least 1 and at most window + 1; an admitting
\* call returns None; and with limit 10 and window 60, ten admissions at one
\* time and an eleventh call 5 seconds later give a rejection with 55 or 56.
C21_RetryAfter ==
    /\ verdict # NoVerdict /\ verdict.allowed => verdict.retry_after = None
    /\ verdict # NoVerdict /\ ~verdict.allowed =>
          /\ verdict.retry_after =
                ((OldestRemaining + Ticks(verdict.window) - verdict.at)
                    \div TicksPerSecond) + 1
          /\ 1 <= verdict.retry_after
          /\ verdict.retry_after <= verdict.window + 1
    /\ /\ verdict.limit = 10 /\ verdict.window = 60
       /\ verdict.found = [i \in 1..10 |-> LimiterStart]
       /\ verdict.at = LimiterStart + Ticks(5)
       => ~verdict.allowed /\ verdict.retry_after \in {55, 56}

\* C21 witness: ten admissions at the start and an eleventh call 5 seconds
\* later, rejected with a hint of 56 seconds.
C21_Witness ==
    /\ policy[BurstKey] = [limit |-> ShortenLimit, window |-> ShortenWindow]
    /\ checks = ShortenLimit + 1
    /\ requests[BurstKey] = [i \in 1..ShortenLimit |-> LimiterStart]
    /\ verdict.at = LimiterStart + Ticks(5)
    /\ ~verdict.allowed
    /\ verdict.retry_after = 56

\* ------------------------------------------- runs of failures and CLOSED
\* C22: while the breaker is CLOSED an invocation that returns sets
\* failure_count to 0; the breaker leaves CLOSED only in a step in which an
\* invocation raises and completes a run of failure_threshold or more failures
\* with no success between them; and as long as every run of consecutive
\* failures has been shorter than failure_threshold, the breaker is CLOSED with
\* failure_count below failure_threshold.
C22_ClosedUntilNInARow ==
    /\ [][stats.state = "CLOSED" /\ OpReturned => stats'.failure_count = 0]_vars
    /\ [][stats.state = "CLOSED" /\ stats'.state # "CLOSED" =>
            OpRaised /\ consecFail' >= config.failure_threshold]_vars
    /\ [](longestRun < config.failure_threshold =>
            /\ stats.state = "CLOSED"
            /\ stats.failure_count < config.failure_threshold)

\* C22 witness: with failure_threshold 2, three invocations raised and two
\* returned, no two failures in a row, the last one a failure: the breaker is
\* CLOSED with failure_count 1.
C22_Witness ==
    /\ config.failure_threshold = 2
    /\ invoked = 5
    /\ stats.total_requests = 5
    /\ stats.total_failures = 3
    /\ longestRun = 1
    /\ consecFail = 1
    /\ \A c \in Callers : pc[c] = "idle"
    /\ stats.state = "CLOSED"
    /\ stats.failure_count = 1

\* ------------------------------------------------ rejections and quota
\* How many of the timestamps in `times` are t.
Stamps(times, t) == Cardinality({i \in 1..Len(times) : times[i] = t})

\* C23: a dispatch call that returns 429, whichever check rejected, leaves no
\* timestamp of its request in the record of the client's global counter nor
\* in the record of its endpoint counter.
C23_RejectedConsumesNothing ==
    [][Dispatching /\ Rejected =>
          LET client_id == dispatched'.client_id
              ekey == endpoint_key(client_id, dispatched'.path)
          IN  /\ Stamps(Get(requests', client_id), now)
                    = Stamps(Get(requests, client_id), now)
              /\ Stamps(Get(requests', ekey), now')
                    = Stamps(Get(requests, ekey), now')]_vars

\* ----------------------------------------------------------- the sweep
\* A step in which is_allowed was called (once, or twice by one dispatch).
Calling == checks' > checks

\* C24: no is_allowed call, the sweep it may run included, removes from the
\* record of any key a timestamp that is still inside the window under which
\* that key is counted.
C24_SweepKeepsLiveEntries ==
    [][Calling =>
          \A k \in DOMAIN requests :
              \A i \in 1..Len(requests[k]) :
                  requests[k][i] > now - Ticks(policy[k].window) =>
                      /\ k \in DOMAIN requests'
                      /\ Stamps(requests'[k], requests[k][i])
                            >= Stamps(requests[k], requests[k][i])]_vars

\* ------------------------------------------------------------ the flag
\* The callers between `self._lock = True` and the finally block of their call
\* (a rejected call passes through both in one step), and those asleep in the
\* spin loop.
Holding == {c \in DOMAIN pc : pc[c] = "op"}
Spinning == {c \in DOMAIN pc : pc[c] = "spin"}

\* C25: at most one call is between setting the flag and the finally block
\* that clears it, and the flag is set exactly while there is one; a call gets
\* past the spin loop only when no call is there, however many callers are
\* asleep in the loop; and only the call that holds the flag records a failure
\* or clears the flag.
C25_MutualExclusion ==
    /\ [](Cardinality(Holding) <= 1 /\ (_lock <=> Holding # {}))
    /\ [][Attempt => ~_lock /\ Holding = {} /\ Holding' \subseteq {caller'}]_vars
    /\ [][(_lock /\ ~_lock') \/ OpRaised =>
            \E c \in Holding : pc'[c] = "idle" /\ Holding' = {}]_vars

\* C25 witness: the flag has just been cleared by a call that returned, with
\* two callers asleep in the spin loop.
C25_Witness ==
    /\ ~_lock
    /\ Cardinality(Spinning) = 2
    /\ attempts = 1
    /\ \E c \in DOMAIN pc : pc[c] = "idle" /\ outcome[c] = "result"

\* ---------------------------------------------------- the policy lookup
\* Entry i of the table is an endpoint entry whose pattern the path looked up
\* starts with.
Matches(i) ==
    LET pattern == table[i].pattern
    IN  /\ pattern # <<"global">>
        /\ Len(pattern) <= Len(looked.path)
        /\ \A k \in 1..Len(pattern) : looked.path[k] = pattern[k]

\* A dispatch call whose path has no endpoint policy makes the global check
\* only.  Holds under SpecMiddleware.
OnlyGlobalWithoutPolicy ==
    [][Dispatching /\ _get_endpoint_limit(dispatched'.path) = NoPolicy =>
          /\ checks' = checks + 1
          /\ verdict'.key = dispatched'.client_id
          /\ DOMAIN requests' \subseteq DOMAIN requests \cup {dispatched'.client_id}]_vars

\* C26: _get_endpoint_limit returns the first entry of the table, in
\* declaration order, whose pattern is not "global" and is a prefix of the
\* path, also when a later entry has a longer matching pattern; None when
\* there is no such entry; and never the "global" entry.
C26_FirstMatchingPrefix ==
    looked # NoLookup =>
        /\ (\E i \in 1..Len(table) : Matches(i)) =>
               \E i \in 1..Len(table) :
                   /\ Matches(i)
                   /\ \A j \in 1..(i - 1) : ~Matches(j)
                   /\ looked.policy = table[i]
        /\ (\A i \in 1..Len(table) : ~Matches(i)) => looked.policy = NoPolicy
        /\ looked.policy # global_config
        /\ looked.policy.pattern # <<"global">>

\* C26 witness: with "/api" declared before "/api/qr/", the path "/api/qr/a"
\* got the policy of "/api", the shorter of its two matching patterns.
C26_Witness ==
    /\ table = <<rate_limits[1], ApiPolicy>> \o Tail(rate_limits)
    /\ looked.path = <<"/api", "/qr", "/", "a">>
    /\ looked.policy = ApiPolicy

\* ------------------------------------------------ the keys of the counters
\* The limit and window of a policy.
Quota(p) == [limit |-> p.limit, window |-> p.window]

\* C27: the key of a global counter is never the key of an endpoint counter:
\* the record a dispatch call counts its client's global quota in was never
\* counted under another policy, and neither was the record it counts the
\* endpoint quota in, whatever X-Forwarded-For values the clients send.
C27_KeysNeverShared ==
    [][Dispatching =>
          LET client_id == dispatched'.client_id
              endpoint_limit == _get_endpoint_limit(dispatched'.path)
              ekey == endpoint_key(client_id, dispatched'.path)
          IN  /\ client_id \in DOMAIN policy =>
                    policy[client_id] = Quota(global_config)
              /\ endpoint_limit # NoPolicy /\ ekey \in DOMAIN policy =>
                    policy[ekey] = Quota(endpoint_limit)]_vars

\* ------------------------------------------------------------- recovery
\* The breaker is OPEN, no operation will raise any more, and the clock can
\* still reach the end of recovery_timeout.
OpenAndRecovering ==
    /\ stats.state = "OPEN"
    /\ invoked >= MaxFailing
    /\ stats.last_failure_time + Ticks(config.recovery_timeout) <= StartTime + MaxTime

\* C28: once the breaker is OPEN and every operation invoked from then on
\* returns, with the clock advancing and calls being made, the breaker becomes
\* CLOSED; it leaves OPEN only for HALF_OPEN (unless it is reset); and a CLOSED
\* breaker leaves CLOSED only in a step in which an operation raises.
C28_RecoversAndStaysClosed ==
    /\ OpenAndRecovering ~> stats.state = "CLOSED"
    /\ [][stats.state = "OPEN" /\ stats'.state # "OPEN" =>
            stats'.state = "HALF_OPEN" \/ Resetting]_vars
    /\ [][stats.state = "CLOSED" /\ stats'.state # "CLOSED" => OpRaised]_vars

\* C28 witness: the breaker opened at the MaxFailing-th invocation, no reset
\* was made, recovery_timeout went by, success_threshold probes returned and
\* the next call closed the breaker.
C28_Witness ==
    /\ config.failure_threshold = MaxFailing
    /\ config.success_threshold = MaxThreshold
    /\ stats.state = "CLOSED"
    /\ stats.total_failures = MaxFailing
    /\ stats.success_count = config.success_threshold
    /\ stats.total_requests = invoked
    /\ invoked = MaxFailing + config.success_threshold + 1
    /\ now >= stats.last_failure_time + Ticks(config.recovery_timeout)

\* ------------------------------------------------- the periodic sweep
\* The is_allowed call of this step found a sweep due, and the cutoff of that
\* sweep.
SweepDue == now - last_cleanup > Ticks(CleanupInterval)
Cutoff == now - Ticks(verdict'.window * 2)

\* Key k is in the map, the last call was not for k, and the clock can still
\* reach a reading more than CleanupInterval after this one.
Abandoned(k) ==
    /\ k \in DOMAIN requests
    /\ verdict.key # k
    /\ now + Ticks(CleanupInterval) + Ticks(Stride) <= SweepEnd

\* C29: an is_allowed call runs the sweep exactly when more than 60 seconds
\* have passed since the previous one (or since construction); the sweep
\* leaves of every other key the timestamps newer than twice the calling
\* window ago and deletes the key when none is left; a call that runs no sweep
\* leaves the other keys alone; and a key in the map is eventually removed
\* from it or called again, when the clock keeps advancing and calls keep
\* arriving.
C29_SweepRemovesIdleKeys ==
    /\ [][Calling => last_cleanup' = IF SweepDue THEN now ELSE last_cleanup]_vars
    /\ [][~Calling => last_cleanup' = last_cleanup]_vars
    /\ [][Calling /\ SweepDue =>
            \A k \in DOMAIN requests \ {verdict'.key} :
                LET kept == SelectSeq(requests[k], LAMBDA x : x > Cutoff)
                IN  IF kept = << >> THEN k \notin DOMAIN requests'
                    ELSE k \in DOMAIN requests' /\ requests'[k] = kept]_vars
    /\ [][Calling /\ ~SweepDue =>
            \A k \in DOMAIN requests \ {verdict'.key} :
                k \in DOMAIN requests' /\ requests'[k] = requests[k]]_vars
    /\ \A k \in LimiterKeys :
            Abandoned(k) ~> (k \notin DOMAIN requests \/ verdict.key = k)

\* C29 witness: key A was admitted once and received no call since the clock
\* last advanced; a call for key B has just run the sweep, and A is no longer
\* in the map.
C29_Witness ==
    /\ <<"A">> \in DOMAIN admitted
    /\ <<"A">> \notin DOMAIN requests
    /\ verdict.key = <<"B">>
    /\ verdict.at = now
    /\ last_cleanup = now
    /\ checks = 1

\* ----------------------------------------------------- calls that end
\* Every operation awaited ends, and with it its call, the flag cleared.
\* Holds under SpecArrivals.
HolderCompletes ==
    /\ \A c \in Callers : pc[c] = "op" ~> pc[c] = "idle"
    /\ [][\A c \in Callers : pc[c] = "op" /\ pc'[c] = "idle" => ~_lock']_vars
    /\ [][Attempt /\ invoked' = invoked => ~_lock' /\ pc'[caller'] = "idle"]_vars

\* C30: every call ends when every operation ends: a call that holds the flag
\* ends with the flag cleared, and a caller asleep in the spin loop gets past
\* the loop, whatever callers arrive after it.
C30_EveryCallCompletes ==
    \A c \in Callers : pc[c] # "idle" ~> pc[c] = "idle"

====
